---- MODULE Spec2Model ----
(***************************************************************************)
(* The Lua <-> flecs component binding of Flecs_TRY.cpp as a state machine. *)
(*                                                                         *)
(* State: the flecs Component Storage of each entity (which kinds it       *)
(* holds, and the Transform / Velocity / DynamicComponent values), the row *)
(* each entity occupies in its archetype table, the Lua variables of the   *)
(* running script, the Lua userdata that are unreachable but not yet       *)
(* collected, and the TransformTester resources with the number of times   *)
(* each destructor ran.  One action per scripted statement.                *)
(***************************************************************************)
EXTENDS Integers, FiniteSets, Sequences, TLC

\* Number of Transform(x, y) constructions a script performs.
MaxRes == 2
\* Number of statements a script executes.
MaxSteps == 5

Entities == {"e1", "e2"}
LuaVars == {"a", "b"}

\* luaComponentRegistry after main's three registrations.
Registry == {"Transform", "Velocity", "DynamicComponent"}
TypedKinds == {"Transform", "Velocity"}
Names == Registry \cup {"Bogus"}

\* Scripted field values; 0 stands for Lua nil (no such field) in a table and
\* for the default 0 of a Velocity field.
Vals == {1, 2}
\* Keys of Lua tables: the strings "a", "b", "" and the boolean key true.
StringKeys == {"a", "b"}
BoolKey == "<true>"
TKeys == StringKeys \cup {"", BoolKey}
\* Keys of DynamicComponent::fields (std::string).
SKeys == StringKeys \cup {""}
VelFields == {"vx", "vy"}

ResIds == 1..MaxRes
NoEnt == "-"

VARIABLES has, trans, vel, dyn, row, locals, garbage, torn, nextRes, last, budget

store == <<has, trans, vel, dyn, row>>
vars == <<has, trans, vel, dyn, row, locals, garbage, torn, nextRes, last, budget>>

----------------------------------------------------------------------------
(* Lua values *)

EmptyTable == [k \in TKeys |-> 0]
EmptyFields == [k \in SKeys |-> 0]
DefaultVelocity == [vx |-> 0, vy |-> 0]

Obj(t, kind, ent, res, v, f) ==
    [t |-> t, kind |-> kind, ent |-> ent, stale |-> FALSE, res |-> res,
     vx |-> v.vx, vy |-> v.vy, f |-> f]

Nil == Obj("nil", "-", NoEnt, 0, DefaultVelocity, EmptyTable)

\* Transform{ .transformTester = make_shared<TransformTester>(x, y) } held by
\* value in a Lua userdata.
TransformVal(r) == Obj("val", "Transform", NoEnt, r, DefaultVelocity, EmptyTable)

\* Velocity(x, y) held by value in a Lua userdata.
VelocityVal(x, y) == Obj("val", "Velocity", NoEnt, 0, [vx |-> x, vy |-> y], EmptyTable)

\* A Lua table; ent is the entity whose getComponent built it (NoEnt for a
\* table the script wrote itself).
TableVal(m, e) == Obj("tbl", "DynamicComponent", e, 0, DefaultVelocity, m)

\* sol::make_object(lua, ptr): a userdata holding T* into Component Storage.
Handle(e, k) == Obj("ptr", k, e, 0, DefaultVelocity, EmptyTable)

IsTransformVal(o) == o.t = "val" /\ o.kind = "Transform"

----------------------------------------------------------------------------
(* Component Storage (flecs): archetype tables and their rows *)

\* The entities stored in the same table as e (same set of kinds).
SameTable(e) == {x \in Entities \ {e} : has[x] = has[e]}

\* Deleting e's row moves the table's last row into the hole.
LastOf(e) ==
    {x \in SameTable(e) : row[x] > row[e] /\ \A y \in SameTable(e) : row[y] <= row[x]}

\* The entities whose component data changes address when e changes table.
Moved(e) == {e} \cup LastOf(e)

\* e is appended to the table of the archetype arch.
RowsAfterMove(e, arch) ==
    [x \in Entities |->
        IF x = e THEN Cardinality({y \in Entities \ {e} : has[y] = arch})
        ELSE IF x \in LastOf(e) THEN row[e]
        ELSE row[x]]

\* T* handles into the storage of the entities in ents dangle from now on.
Invalidate(ls, ents) ==
    [v \in LuaVars |->
        IF ls[v].t = "ptr" /\ ls[v].ent \in ents
        THEN [ls[v] EXCEPT !.stale = TRUE] ELSE ls[v]]

\* Appending e's row to the table of arch may reallocate that table's columns
\* (it depends on their capacity): then the data of the rows already there
\* changes address too.
Grows(e, arch) ==
    IF arch # has[e] /\ \E x \in Entities \ {e} : has[x] = arch
    THEN BOOLEAN ELSE {FALSE}
Regrown(e, arch, grow) == IF grow THEN {x \in Entities \ {e} : has[x] = arch} ELSE {}

\* e.set<T>(t): where the component lands.
SetMoves(e, k, grow) ==
    IF k \in has[e] THEN {} ELSE Moved(e) \cup Regrown(e, has[e] \cup {k}, grow)
SetRows(e, k) == IF k \in has[e] THEN row ELSE RowsAfterMove(e, has[e] \cup {k})

\* e.remove<T>().
RemoveMoves(e, k, grow) ==
    IF k \in has[e] THEN Moved(e) \cup Regrown(e, has[e] \ {k}, grow) ELSE {}
RemoveRows(e, k) == IF k \in has[e] THEN RowsAfterMove(e, has[e] \ {k}) ELSE row

----------------------------------------------------------------------------
(* shared_ptr<TransformTester> ownership *)

\* Some shared_ptr copy still refers to resource r: one in Component Storage,
\* one inside a Lua userdata a variable holds, or one inside a Lua userdata
\* that is unreachable but not collected yet.
Held(r, h, tr, ls, g) ==
    \/ \E e \in Entities : "Transform" \in h[e] /\ tr[e] = r
    \/ \E v \in LuaVars : IsTransformVal(ls[v]) /\ ls[v].res = r
    \/ r \in g

\* The userdata a variable stops referring to when it is assigned.
Dropped(v) == IF IsTransformVal(locals[v]) /\ locals[v].res # 0 THEN {locals[v].res} ELSE {}

\* ~TransformTester runs when the last shared_ptr copy goes.  A resource that
\* is already destroyed and loses a copy made from a dangling handle releases a
\* freed control block: the destructor may or may not run again (fire).
Destroy(fire) ==
    torn' = [r \in ResIds |->
        IF r < nextRes' /\ ~Held(r, has', trans', locals', garbage')
        THEN IF torn[r] = 0 THEN 1
             ELSE IF fire /\ Held(r, has, trans, locals, garbage) THEN 2
             ELSE torn[r]
        ELSE torn[r]]

Fires == IF \E r \in ResIds : torn[r] > 0 /\ Held(r, has, trans, locals, garbage)
         THEN BOOLEAN ELSE {FALSE}

----------------------------------------------------------------------------
(* Conversions between Lua values and native values *)

Native(r, x, y) == [res |-> r, vx |-> x, vy |-> y]

\* What a valid Lua object of a typed kind denotes: the userdata's own value,
\* or the value in Component Storage a T* handle points at.
Deref(o) ==
    IF o.t = "ptr"
    THEN Native(IF o.kind = "Transform" THEN trans[o.ent] ELSE 0,
                IF o.kind = "Velocity" THEN vel[o.ent].vx ELSE 0,
                IF o.kind = "Velocity" THEN vel[o.ent].vy ELSE 0)
    ELSE Native(o.res, o.vx, o.vy)

\* obj.as<T>(): the native copies the conversion can produce.  Reading through a
\* dangling T* is undefined: for Transform the bytes may still name any
\* TransformTester ever made (or be null), for Velocity any field values.
AsT(o, k) ==
    IF o.t = "ptr" /\ o.stale
    THEN IF k = "Transform"
         THEN {Native(r, 0, 0) : r \in 0..(nextRes - 1)}
         ELSE {Native(0, x, y) : x \in Vals \cup {0}, y \in Vals \cup {0}}
    ELSE {Deref(o)}

\* The Lua values obj.as<T>() is applied to: a userdata of kind k.
Conforms(o, k) == o.t \in {"val", "ptr"} /\ o.kind = k

\* kv.first.as<std::string>() where it yields a string.  A string key is
\* itself; the boolean key is no string, and the unchecked getter turns
\* lua_tolstring's null result of length 0 into "".
AsString(key) == IF key = BoolKey THEN "" ELSE key

\* The loop over tbl that fills dc.fields.
FieldsOf(tbl) ==
    [s \in SKeys |->
        LET from == {key \in TKeys : tbl[key] # 0 /\ AsString(key) = s}
        IN  IF from = {} THEN 0 ELSE tbl[CHOOSE key \in from : TRUE]]

\* A key the conversion to std::string rejects when the getter is checked.
HasBadKey(tbl) == tbl[BoolKey] # 0

\* Whether the build's getter checks the Lua type (and throws) or not.
Getters(tbl) == IF HasBadKey(tbl) THEN {"checked", "unchecked"} ELSE {"unchecked"}

\* lua.create_table() filled from dc.fields.
TableOf(fields) == [key \in TKeys |-> IF key \in SKeys THEN fields[key] ELSE 0]

----------------------------------------------------------------------------
(* The registry's adapters *)

\* luaComponentRegistry.find(name) != end().
Registered(name) == name \in Registry

\* A get lambda that copies: sol::make_object(lua, *e.get<T>()).
TypedGetCopy(e, k) ==
    Obj("val", k, e, IF k = "Transform" THEN trans[e] ELSE 0,
        IF k = "Velocity" THEN vel[e] ELSE DefaultVelocity, EmptyTable)

\* The typed get lambda's result when e has T.
TypedGet(e, k) == Handle(e, k)

\* A dynamic get lambda that hands out the stored mapping itself.
DynamicGetAlias(e) == Handle(e, "DynamicComponent")

\* The dynamic get lambda's result when e has a DynamicComponent.
DynamicGet(e) == TableVal(TableOf(dyn[e]), e)

\* it->second.get(self), or nil for an unknown name.
GetResult(e, name) ==
    IF ~Registered(name) \/ name \notin has[e] THEN Nil
    ELSE IF name \in TypedKinds THEN TypedGet(e, name)
    ELSE DynamicGet(e)

\* The value a handle to e's component of kind k denotes.
Stored(e, k) == Deref(Handle(e, k))

\* A set that keeps the component the entity already has.
StoredAfterSetKeep(e, k, t) == IF k \in has[e] THEN Stored(e, k) ELSE t

\* e.set<T>(t): the stored value after the call.
StoredAfterSet(e, k, t) == t

\* A set that merges the new fields into the ones the entity already has.
FieldsAfterSetMerge(e, fields) ==
    [s \in SKeys |-> IF fields[s] # 0 THEN fields[s] ELSE dyn[e][s]]

\* e.set<DynamicComponent>(dc): the stored fields after the call.
FieldsAfterSet(e, fields) == fields

\* A remove lambda that leaves the component in place.
KindsAfterRemoveKept(e, k) == has[e]

\* e.remove<T>(): the kinds e holds after the call.
KindsAfterRemove(e, k) == has[e] \ {k}

\* The statement executed last: its entity, its name (for an assignment, the
\* field), its Lua variable, whether the entity held the kind before it ran,
\* whether it ran to its end on a well-defined argument, the resource the
\* erased or constructed Transform referred to, and the value assigned.
Did(op, e, k, v, had, ok, res, val) ==
    [op |-> op, e |-> e, k |-> k, v |-> v, had |-> had, ok |-> ok, res |-> res,
     val |-> val]

\* The script has statements left to run (a negative budget: a script of any
\* length).
Running == budget # 0
Step == budget' = IF budget > 0 THEN budget - 1 ELSE budget

----------------------------------------------------------------------------
(* Initial state: main() before lua.script runs, the entities created *)

Start ==
    /\ has = [e \in Entities |-> {}]
    /\ trans = [e \in Entities |-> 0]
    /\ vel = [e \in Entities |-> DefaultVelocity]
    /\ dyn = [e \in Entities |-> EmptyFields]
    /\ row = [e \in Entities |-> IF e = "e1" THEN 0 ELSE 1]
    /\ locals = [v \in LuaVars |-> Nil]
    /\ garbage = {}
    /\ torn = [r \in ResIds |-> 0]
    /\ nextRes = 1
    /\ last = Did("init", NoEnt, "-", "-", FALSE, TRUE, 0, 0)

----------------------------------------------------------------------------
(* Scripted statements *)

\* v = Transform(x, y)
NewTransform(v) ==
    /\ Running /\ Step
    /\ nextRes <= MaxRes
    /\ locals' = [locals EXCEPT ![v] = TransformVal(nextRes)]
    /\ nextRes' = nextRes + 1
    /\ garbage' = garbage \cup Dropped(v)
    /\ UNCHANGED store
    /\ Destroy(FALSE)
    /\ last' = Did("new", NoEnt, "Transform", v, FALSE, TRUE, nextRes, 0)

\* v = Velocity(x, y)
NewVelocity(v, x, y) ==
    /\ Running /\ Step
    /\ locals' = [locals EXCEPT ![v] = VelocityVal(x, y)]
    /\ garbage' = garbage \cup Dropped(v)
    /\ UNCHANGED <<store, nextRes>>
    /\ Destroy(FALSE)
    /\ last' = Did("new", NoEnt, "Velocity", v, FALSE, TRUE, 0, 0)

\* v = { ... }
NewTable(v, m) ==
    /\ Running /\ Step
    /\ locals' = [locals EXCEPT ![v] = TableVal(m, NoEnt)]
    /\ garbage' = garbage \cup Dropped(v)
    /\ UNCHANGED <<store, nextRes>>
    /\ Destroy(FALSE)
    /\ last' = Did("new", NoEnt, "DynamicComponent", v, FALSE, TRUE, 0, 0)

\* The typed add lambda: auto t = obj.as<T>(); e.set<T>(t);
AddTyped(e, k, v) ==
    /\ Conforms(locals[v], k)
    /\ \E t \in AsT(locals[v], k), fire \in Fires, grow \in Grows(e, has[e] \cup {k}) :
        /\ has' = [has EXCEPT ![e] = @ \cup {k}]
        /\ trans' = IF k = "Transform"
                    THEN [trans EXCEPT ![e] = StoredAfterSet(e, k, t).res] ELSE trans
        /\ vel' = IF k = "Velocity"
                  THEN [vel EXCEPT ![e] = [vx |-> StoredAfterSet(e, k, t).vx,
                                           vy |-> StoredAfterSet(e, k, t).vy]]
                  ELSE vel
        /\ dyn' = dyn
        /\ row' = SetRows(e, k)
        /\ locals' = Invalidate(locals, SetMoves(e, k, grow))
        /\ UNCHANGED <<garbage, nextRes>>
        /\ Destroy(fire)
    /\ last' = Did("add", e, k, v, k \in has[e], ~locals[v].stale, 0, 0)

\* The dynamic add lambda: the loop over the table, then e.set<DynamicComponent>(dc).
AddDynamic(e, v) ==
    /\ locals[v].t = "tbl"
    /\ \E getter \in Getters(locals[v].f), grow \in Grows(e, has[e] \cup {"DynamicComponent"}) :
        IF getter = "checked"
        THEN \* as<std::string>() throws inside the loop, before e.set
             /\ UNCHANGED <<store, locals, garbage, torn, nextRes>>
             /\ last' = Did("add", e, "DynamicComponent", v, "DynamicComponent" \in has[e], FALSE, 0, 0)
        ELSE /\ has' = [has EXCEPT ![e] = @ \cup {"DynamicComponent"}]
             /\ dyn' = [dyn EXCEPT ![e] = FieldsAfterSet(e, FieldsOf(locals[v].f))]
             /\ row' = SetRows(e, "DynamicComponent")
             /\ locals' = Invalidate(locals, SetMoves(e, "DynamicComponent", grow))
             /\ UNCHANGED <<trans, vel, garbage, nextRes>>
             /\ Destroy(FALSE)
             /\ last' = Did("add", e, "DynamicComponent", v, "DynamicComponent" \in has[e], TRUE, 0, 0)

\* e:addComponent(name, v)
AddComponent(e, name, v) ==
    /\ Running /\ Step
    /\ IF ~Registered(name)
       THEN /\ UNCHANGED <<store, locals, garbage, torn, nextRes>>
            /\ last' = Did("add", e, name, v, FALSE, TRUE, 0, 0)
       ELSE IF name \in TypedKinds THEN AddTyped(e, name, v)
       ELSE AddDynamic(e, v)

\* v = e:getComponent(name)
GetComponent(e, name, v) ==
    /\ Running /\ Step
    /\ locals' = [locals EXCEPT ![v] = GetResult(e, name)]
    /\ garbage' = garbage \cup Dropped(v)
    /\ UNCHANGED <<store, nextRes>>
    /\ Destroy(FALSE)
    /\ last' = Did("get", e, name, v, name \in has[e], TRUE, 0, 0)

\* A removeComponent that collects outside the registry check.
GarbageAfterRemoveAlways(name) == {}

\* The garbage after removeComponent's body ran.
GarbageAfterRemove(name) == IF Registered(name) THEN {} ELSE garbage

\* e:removeComponent(name): it->second.remove(self); lua.collect_garbage();
RemoveComponent(e, name) ==
    /\ Running /\ Step
    /\ IF ~Registered(name)
       THEN UNCHANGED <<store, locals>>
       ELSE /\ has' = [has EXCEPT ![e] = KindsAfterRemove(e, name)]
            /\ trans' = IF name = "Transform" THEN [trans EXCEPT ![e] = 0] ELSE trans
            /\ vel' = IF name = "Velocity" THEN [vel EXCEPT ![e] = DefaultVelocity] ELSE vel
            /\ dyn' = IF name = "DynamicComponent" THEN [dyn EXCEPT ![e] = EmptyFields] ELSE dyn
            /\ row' = RemoveRows(e, name)
            /\ \E grow \in Grows(e, has[e] \ {name}) :
                  locals' = Invalidate(locals, RemoveMoves(e, name, grow))
    /\ garbage' = GarbageAfterRemove(name)
    /\ nextRes' = nextRes
    /\ \E fire \in Fires : Destroy(fire)
    /\ last' = Did("remove", e, name, "-", name \in has[e], TRUE,
                   IF name = "Transform" /\ name \in has[e] THEN trans[e] ELSE 0, 0)

\* The fields a script can assign through v.
Settable(o, key) ==
    \/ o.t \in {"val", "ptr"} /\ o.kind = "Velocity" /\ key \in VelFields
    \/ o.t = "tbl" /\ key \in StringKeys
    \/ o.t = "ptr" /\ o.kind = "DynamicComponent" /\ key \in StringKeys

\* Where a write through the T* handle o lands: its entity's storage; through a
\* dangling handle, nowhere or in whichever component now lies at that address.
Targets(o) ==
    IF o.stale THEN {NoEnt} \cup {x \in Entities : o.kind \in has[x]} ELSE {o.ent}

\* v.key = val
SetField(v, key, val) ==
    LET o == locals[v] IN
    /\ Running /\ Step
    /\ Settable(o, key)
    /\ IF o.t = "ptr"
       THEN /\ \E x \in Targets(o) :
                /\ vel' = IF x # NoEnt /\ o.kind = "Velocity"
                          THEN [vel EXCEPT ![x][key] = val] ELSE vel
                /\ dyn' = IF x # NoEnt /\ o.kind = "DynamicComponent"
                          THEN [dyn EXCEPT ![x][key] = val] ELSE dyn
            /\ locals' = locals
       ELSE /\ locals' = [locals EXCEPT ![v] =
                            IF o.t = "tbl" THEN [o EXCEPT !.f[key] = val]
                            ELSE IF key = "vx" THEN [o EXCEPT !.vx = val]
                            ELSE [o EXCEPT !.vy = val]]
            /\ UNCHANGED <<vel, dyn>>
    /\ UNCHANGED <<has, trans, row, garbage, torn, nextRes>>
    /\ last' = Did("set", o.ent, key, v, FALSE, o.ent # NoEnt /\ ~o.stale, 0, val)

\* A pass of Lua's collector between two statements: every unreachable
\* userdata is finalized.
CollectGarbage ==
    /\ Running /\ Step
    /\ garbage # {}
    /\ garbage' = {}
    /\ UNCHANGED <<store, locals, nextRes>>
    /\ Destroy(FALSE)
    /\ last' = Did("gc", NoEnt, "-", "-", FALSE, TRUE, 0, 0)

\* Table constructors a script writes: the values of "a", "b" and [true].
TableLits == {m \in [TKeys -> Vals \cup {0}] : m[""] = 0 /\ m[BoolKey] \in {0, 1}}

----------------------------------------------------------------------------
(* Specifications *)

\* Scripts of any length over the owning kind.
Unbounded == Start /\ budget = -1

NextOwn ==
    \/ \E v \in LuaVars : NewTransform(v)
    \/ \E e \in Entities, name \in {"Transform", "Bogus"}, v \in LuaVars :
          AddComponent(e, name, v)
    \/ \E e \in Entities, name \in {"Transform", "Bogus"}, v \in LuaVars :
          GetComponent(e, name, v)
    \/ \E e \in Entities, name \in {"Transform", "Bogus"} : RemoveComponent(e, name)
    \/ CollectGarbage

SpecOwn == Unbounded /\ [][NextOwn]_vars

\* Scripts of any length over the plain typed kind.
NextVel ==
    \/ \E v \in LuaVars, x \in Vals, y \in Vals : NewVelocity(v, x, y)
    \/ \E e \in Entities, name \in {"Velocity", "Bogus"}, v \in LuaVars :
          AddComponent(e, name, v)
    \/ \E e \in Entities, name \in {"Velocity", "Bogus"}, v \in LuaVars :
          GetComponent(e, name, v)
    \/ \E e \in Entities, name \in {"Velocity", "Bogus"} : RemoveComponent(e, name)
    \/ \E v \in LuaVars, key \in VelFields, val \in Vals : SetField(v, key, val)

SpecVel == Unbounded /\ [][NextVel]_vars

\* Scripts of any length over the dynamic kind, on one entity.
NextDyn ==
    \/ \E v \in LuaVars, m \in TableLits : NewTable(v, m)
    \/ \E v \in LuaVars : AddComponent("e1", "DynamicComponent", v)
    \/ \E v \in LuaVars : GetComponent("e1", "DynamicComponent", v)
    \/ RemoveComponent("e1", "DynamicComponent")
    \/ \E v \in LuaVars, key \in StringKeys, val \in Vals : SetField(v, key, val)

SpecDyn == Unbounded /\ [][NextDyn]_vars

\* Scripts of at most MaxSteps statements over every kind and the unknown
\* name, with one Lua variable.
Init == Start /\ budget = MaxSteps

Next ==
    \/ NewTransform("a")
    \/ \E x \in Vals, y \in Vals : NewVelocity("a", x, y)
    \/ \E m \in TableLits : NewTable("a", m)
    \/ \E e \in Entities, name \in Names : AddComponent(e, name, "a")
    \/ \E e \in Entities, name \in Names : GetComponent(e, name, "a")
    \/ \E e \in Entities, name \in Names : RemoveComponent(e, name)
    \/ \E key \in VelFields \cup StringKeys, val \in Vals : SetField("a", key, val)
    \/ CollectGarbage

Spec == Init /\ [][Next]_vars

----------------------------------------------------------------------------
(* Ownership of the TransformTester (SpecOwn) *)

\* C1: when removeComponent(e, "Transform") returns on an entity that held a
\* Transform, the TransformTester that Transform referred to has been
\* destroyed, whatever the script kept in its variables.
C1_TornDownWhenRemoveReturns ==
    (last.op = "remove" /\ last.k = "Transform" /\ last.had /\ last.res # 0)
        => torn[last.res] >= 1

\* C2: after removeComponent(e, K) returned for a typed kind K, no variable of
\* the script holds a handle from getComponent(e, K) that refers to the erased
\* storage.
C2_NoStaleHandleAfterRemove ==
    (last.op = "remove" /\ last.k \in TypedKinds)
        => \A v \in LuaVars :
              ~(locals[v].t = "ptr" /\ locals[v].ent = last.e
                /\ locals[v].kind = last.k /\ locals[v].stale)

\* C3: a TransformTester is destroyed at most once, and not while a Transform
\* in any entity's Component Storage refers to it.
C3_StoredResourceAlive ==
    /\ \A e \in Entities :
          ("Transform" \in has[e] /\ trans[e] # 0) => torn[trans[e]] = 0
    /\ \A r \in ResIds : torn[r] <= 1

----------------------------------------------------------------------------
(* Typed kinds *)

C5_TypedAddLastWriteWins ==
    (last.op = "add" /\ last.k \in TypedKinds /\ last.ok)
        => /\ last.k \in has[last.e]
           /\ GetResult(last.e, last.k) # Nil
           /\ Deref(GetResult(last.e, last.k)) = Deref(locals[last.v])

\* A Velocity with vx = 2 was added over the Velocity the entity already had.
C5_Witness ==
    /\ last.op = "add" /\ last.k = "Velocity" /\ last.ok /\ last.had
    /\ locals[last.v].t = "val" /\ locals[last.v].vx = 2
    /\ vel[last.e].vx = 2

\* C6: after removeComponent(e, K) for a registered kind K, e does not hold K
\* and getComponent(e, K) yields nil; when e did not hold K, Component Storage
\* and the script's variables are as before the call.
C6_RemovedIsAbsent ==
    [][\A e \in Entities, k \in Registry :
          (last'.op = "remove" /\ last'.e = e /\ last'.k = k)
              => /\ k \notin has'[e]
                 /\ GetResult(e, k)' = Nil
                 /\ (k \notin has[e] => UNCHANGED <<store, locals>>)]_vars

\* A remove erased a component, and a remove ran on an entity without one while
\* the other entity held a component.
C6_Witness ==
    /\ last.op = "remove" /\ last.k \in Registry /\ ~last.had
    /\ last.k \notin has[last.e]
    /\ \E e \in Entities : has[e] # {}

\* C7: addComponent and removeComponent with a name that is not registered
\* change no component of any entity, no variable, and collect nothing;
\* getComponent with such a name yields nil and changes no component.
C7_UnknownNameIsNoOp ==
    [][(last'.k \notin Registry /\ last'.op \in {"add", "get", "remove"})
          => /\ UNCHANGED <<store, torn>>
             /\ last'.op \in {"add", "remove"} => UNCHANGED <<locals, garbage>>
             /\ last'.op = "get" => locals'[last'.v] = Nil]_vars

\* removeComponent(e, "Bogus") ran while an unreachable Transform userdata was
\* waiting for the collector and an entity held a component.
C7_Witness ==
    /\ last.op = "remove" /\ last.k = "Bogus"
    /\ garbage # {}
    /\ \E e \in Entities : has[e] # {}

----------------------------------------------------------------------------
(* The dynamic kind (SpecDyn) *)

Dyn == "DynamicComponent"

\* C8: after addComponent(e, "DynamicComponent", t) for a table t whose keys
\* are all strings, getComponent yields a table with exactly t's keys and
\* values: nothing of an earlier Dynamic Component is left.
C8_DynamicRoundTrip ==
    (last.op = "add" /\ last.k = Dyn /\ ~HasBadKey(locals[last.v].f))
        => /\ Dyn \in has[last.e]
           /\ GetResult(last.e, Dyn).t = "tbl"
           /\ GetResult(last.e, Dyn).f = locals[last.v].f

\* {a = 2} was added over a Dynamic Component, and the entity has no field b.
C8_Witness ==
    /\ last.op = "add" /\ last.k = Dyn /\ last.had /\ last.ok
    /\ locals[last.v].f = [EmptyTable EXCEPT !["a"] = 2]
    /\ \E w \in LuaVars : locals[w].t = "tbl" /\ locals[w].ent = last.e /\ locals[w].f["b"] # 0
    /\ dyn[last.e]["b"] = 0

\* C9: addComponent(e, "DynamicComponent", t) with a key in t that is no string
\* leaves Component Storage as it was.
C9_MalformedAddIsAtomic ==
    [][(last'.op = "add" /\ last'.k = Dyn /\ HasBadKey(locals[last'.v].f))
          => UNCHANGED <<has, dyn>>]_vars

\* C10: assigning a field of a table getComponent(e, "DynamicComponent")
\* returned changes neither Component Storage nor any other table, so
\* getComponent yields what it yielded before.
C10_DynamicGetIsCopy ==
    [][\A v \in LuaVars :
          (last'.op = "set" /\ last'.v = v /\ locals[v].kind = Dyn /\ locals[v].ent # NoEnt)
              => /\ UNCHANGED store
                 /\ \A w \in LuaVars \ {v} : locals'[w] = locals[w]
                 /\ GetResult(locals[v].ent, Dyn)' = GetResult(locals[v].ent, Dyn)]_vars

\* Two tables were fetched from the same entity and a field of one was
\* assigned: it now differs from the other and from Component Storage.
C10_Witness ==
    /\ last.op = "set" /\ locals[last.v].t = "tbl" /\ locals[last.v].ent = "e1"
    /\ Dyn \in has["e1"]
    /\ locals[last.v].f[last.k] # dyn["e1"][last.k]
    /\ \E w \in LuaVars \ {last.v} :
          /\ locals[w].t = "tbl" /\ locals[w].ent = "e1"
          /\ locals[w].f = TableOf(dyn["e1"])

====
